---- MODULE Spec2Model ----
(***************************************************************************)
(* A model of bitpshr/rome:                                                *)
(*   - the two lint rules html/preferSelfClosing and astAddSelfClosing,    *)
(*     run by the traversal / diagnostic collector / fix applier that the  *)
(*     design document describes (specification Spec);                     *)
(*   - the release workflow main() of the changelog script                 *)
(*     (specification ReleaseSpec).                                        *)
(***************************************************************************)
EXTENDS Integers, Sequences, FiniteSets, TLC

VARIABLES
    \* ---- lint pipeline ----
    tree,          \* the tree owned by the engine (rewritten only by the fix applier)
    view,          \* the tree as the running traversal observes it
    registry,      \* rule names in registration order
    applyFixes,    \* configuration: apply-fixes (TRUE) or describe-only (FALSE)
    phase,         \* "enter" (traversal), "fix" (fix applier), "done", "idle"
    pending,       \* locations still to visit, in document order
    ruleIdx,       \* index in registry of the next rule to run at Head(pending)
    diagnostics,   \* diagnostics of the running pass, in collection order
    fixIdx,        \* index in diagnostics of the next suggestion to apply
    replacements,  \* replacements made by the fix applier in the running pass
    passNo,        \* number of the running pass, from 1
    report,        \* diagnostics of the finished passes of this run
    warnings,      \* non-fatal warnings of this run
    calls,         \* the rule callbacks of the running pass: what each saw and returned
    runNo,         \* number of the run of the pipeline, from 1
    inputTree,     \* the tree given to the running run
    history,       \* the finished runs: the tree each was given and the tree it produced
    \* ---- release workflow ----
    pc,            \* position in main()
    branchName,    \* output of git rev-parse --abbrev-ref HEAD
    diffStatus,    \* exit status of git diff --exit-code
    registryStatus,\* HTTP status of the registry for the new version
    commits,       \* commits since the last tag
    rootVersion,   \* version in the root package.json
    romeVersion,   \* version in packages/rome/package.json
    currentVersion,\* main's local: the cached version
    newVersion,    \* main's local: the output of the first updateVersion
    targetReleaseType, \* main's local: the value of getReleaseType()
    reported,      \* messages written by REPORTER.error
    exitCode,      \* process exit code, -1 while the process runs
    effects,       \* state-changing steps executed, in order
    \* ---- printer ----
    tpPc,          \* "start", "tokenized", "rendered", "idle"
    tpNode,        \* the TSTypeParameter node given to the printer
    tpDoc,         \* the token document the printer returned
    tpText         \* the pieces the layout engine rendered, in order

lintVars == <<tree, view, registry, applyFixes, phase, pending, ruleIdx,
              diagnostics, fixIdx, replacements, passNo, report, warnings,
              calls, runNo, inputTree, history>>
releaseVars == <<pc, branchName, diffStatus, registryStatus, commits,
                 rootVersion, romeVersion, currentVersion, newVersion,
                 targetReleaseType, reported, exitCode, effects>>
printerVars == <<tpPc, tpNode, tpDoc, tpText>>
vars == <<lintVars, releaseVars, printerVars>>

(***************************************************************************)
(* Bounds of the model.                                                    *)
(***************************************************************************)
MaxChildren == 2
MaxRuns == 2
MaxVer == 1
MaxCommits == 2
MaxTypes == 4

(***************************************************************************)
(* NodeModel: nodes are values; equality is structural.                    *)
(***************************************************************************)
HTML_PREFER_SELF_CLOSING == "HTML_PREFER_SELF_CLOSING"
AST_ADD_SELF_CLOSING == "AST_ADD_SELF_CLOSING"

PreferSelfClosingName == "html/preferSelfClosing"
AstAddSelfClosingName == "astAddSelfClosing"

voidElements ==
    {"area", "base", "br", "col", "embed", "hr", "img", "input", "link",
     "meta", "param", "source", "track", "wbr"}

Elem(type, name, selfClosing, children) ==
    [type |-> type, name |-> name, selfClosing |-> selfClosing, children |-> children]

TextNode == Elem("JSXText", "", FALSE, <<>>)

ElementHeads ==
    {<<"HTMLElement", "img">>, <<"HTMLElement", "div">>, <<"JSXElement", "img">>}

Leaves ==
    {Elem(h[1], h[2], sc, <<>>) : h \in ElementHeads, sc \in BOOLEAN} \cup {TextNode}

SeqsUpTo(S, n) == UNION {[1..k -> S] : k \in 0..n}

Trees ==
    {Elem(h[1], h[2], sc, cs) :
        h \in ElementHeads, sc \in BOOLEAN, cs \in SeqsUpTo(Leaves, MaxChildren)}
    \cup {TextNode}

RECURSIVE NodeAt(_, _)
NodeAt(t, loc) ==
    IF loc = <<>> THEN t ELSE NodeAt(t.children[Head(loc)], Tail(loc))

RECURSIVE ReplaceAt(_, _, _)
ReplaceAt(t, loc, n) ==
    IF loc = <<>> THEN n
    ELSE [t EXCEPT !.children[Head(loc)] = ReplaceAt(@, Tail(loc), n)]

IsPrefix(a, b) == Len(a) <= Len(b) /\ SubSeq(b, 1, Len(a)) = a
StrictAncestor(a, b) == IsPrefix(a, b) /\ a # b

ChildLocs(loc, node) == [i \in 1..Len(node.children) |-> Append(loc, i)]

(***************************************************************************)
(* DiagnosticCollector.addFixableDiagnostic: the suggestion is always      *)
(* recorded (see RunRule); the value handed back to the rule is patch.old  *)
(* in describe-only mode and patch.fixed in apply-fixes mode.              *)
(***************************************************************************)
addFixableDiagnostic(apply, patch) ==
    IF apply THEN patch.fixed ELSE patch.old

FixIterationCap == 10

(***************************************************************************)
(* The rules.  A rule's enter callback is modelled by the node it returns  *)
(* and by the calls to addFixableDiagnostic it makes (emitted).            *)
(***************************************************************************)
\* mutant: the override of selfClosing is left out of the copy
WithSelfClosing_NoOverride(node) == node

WithSelfClosing(node) == [node EXCEPT !.selfClosing = TRUE]

\* mutant: old and fixed change places
Patch_Swapped(node) == [old |-> WithSelfClosing(node), fixed |-> node]

Patch(node) == [old |-> node, fixed |-> WithSelfClosing(node)]

\* mutant: the test of children.length is left out
PreferSelfClosingMatches_NoChildrenTest(node) ==
    /\ node.type = "HTMLElement"
    /\ node.name \in voidElements
    /\ ~node.selfClosing

\* mutant: the test of selfClosing is left out
PreferSelfClosingMatches_NoSelfClosingTest(node) ==
    /\ node.type = "HTMLElement"
    /\ node.name \in voidElements
    /\ Len(node.children) = 0

PreferSelfClosingMatches(node) ==
    /\ node.type = "HTMLElement"
    /\ node.name \in voidElements
    /\ ~node.selfClosing
    /\ Len(node.children) = 0

\* mutant: the diagnostic is filed under the other rule's category
PreferSelfClosingEnter_WrongCategory(node, apply) ==
    IF PreferSelfClosingMatches(node)
    THEN [result |-> addFixableDiagnostic(apply, Patch(node)),
          emitted |-> <<[patch |-> Patch(node), category |-> AST_ADD_SELF_CLOSING]>>]
    ELSE [result |-> node, emitted |-> <<>>]

\* mutant: the value of addFixableDiagnostic is dropped
PreferSelfClosingEnter_DropsReturn(node, apply) ==
    IF PreferSelfClosingMatches(node)
    THEN [result |-> node,
          emitted |-> <<[patch |-> Patch(node), category |-> HTML_PREFER_SELF_CLOSING]>>]
    ELSE [result |-> node, emitted |-> <<>>]

PreferSelfClosingEnter(node, apply) ==
    IF PreferSelfClosingMatches(node)
    THEN [result |-> addFixableDiagnostic(apply, Patch(node)),
          emitted |-> <<[patch |-> Patch(node), category |-> HTML_PREFER_SELF_CLOSING]>>]
    ELSE [result |-> node, emitted |-> <<>>]

\* mutant: the test of children.length is left out
AstAddSelfClosingMatches_NoChildrenTest(node) ==
    /\ (node.type = "JSXElement" \/ node.type = "HTMLElement")
    /\ ~node.selfClosing

\* mutant: the test of selfClosing is left out
AstAddSelfClosingMatches_NoSelfClosingTest(node) ==
    /\ (node.type = "JSXElement" \/ node.type = "HTMLElement")
    /\ Len(node.children) = 0

AstAddSelfClosingMatches(node) ==
    /\ (node.type = "JSXElement" \/ node.type = "HTMLElement")
    /\ ~node.selfClosing
    /\ Len(node.children) = 0

\* The value of addFixableDiagnostic is dropped: the callback returns `node`.
AstAddSelfClosingEnter(node, apply) ==
    IF AstAddSelfClosingMatches(node)
    THEN [result |-> node,
          emitted |-> <<[patch |-> Patch(node), category |-> AST_ADD_SELF_CLOSING]>>]
    ELSE [result |-> node, emitted |-> <<>>]

Registries ==
    {<<PreferSelfClosingName>>, <<AstAddSelfClosingName>>,
     <<PreferSelfClosingName, AstAddSelfClosingName>>,
     <<AstAddSelfClosingName, PreferSelfClosingName>>}

(***************************************************************************)
(* Idle values: the variables of the program a behaviour is not about.     *)
(***************************************************************************)
NoVersion == <<0, 0, 0>>

ReleaseIdle ==
    /\ pc = "idle"
    /\ branchName = "main\n"
    /\ diffStatus = 0
    /\ registryStatus = 404
    /\ commits = <<>>
    /\ rootVersion = NoVersion
    /\ romeVersion = NoVersion
    /\ currentVersion = [vs |-> 0, ver |-> <<>>]
    /\ newVersion = [vs |-> 0, ver |-> <<>>]
    /\ reported = <<>>
    /\ exitCode = -1
    /\ effects = <<>>
    /\ targetReleaseType = ""

PrinterIdle ==
    /\ tpPc = "idle"
    /\ tpNode = [name |-> "", constraint |-> [type |-> "undefined"],
                 default |-> [type |-> "undefined"]]
    /\ tpDoc = <<>>
    /\ tpText = <<>>

StartRun(t) ==
    /\ tree' = t
    /\ view' = t
    /\ inputTree' = t
    /\ phase' = "enter"
    /\ pending' = << <<>> >>
    /\ ruleIdx' = 1
    /\ diagnostics' = <<>>
    /\ fixIdx' = 1
    /\ replacements' = 0
    /\ passNo' = 1
    /\ report' = <<>>
    /\ warnings' = <<>>
    /\ calls' = <<>>

Init ==
    /\ tree \in Trees
    /\ view = tree
    /\ inputTree = tree
    /\ history = <<>>
    /\ registry \in Registries
    /\ applyFixes \in BOOLEAN
    /\ phase = "enter"
    /\ pending = << <<>> >>
    /\ ruleIdx = 1
    /\ diagnostics = <<>>
    /\ fixIdx = 1
    /\ replacements = 0
    /\ passNo = 1
    /\ report = <<>>
    /\ warnings = <<>>
    /\ calls = <<>>
    /\ runNo = 1
    /\ ReleaseIdle
    /\ PrinterIdle

(***************************************************************************)
(* Traversal: depth-first, the rules of the registry in registration order *)
(* at each node, each seeing the node as the earlier ones returned it.     *)
(***************************************************************************)
RunRule(name, out) ==
    LET loc == Head(pending)
        node == NodeAt(view, loc)
    IN  /\ view' = ReplaceAt(view, loc, out.result)
        /\ diagnostics' = diagnostics \o
              [i \in 1..Len(out.emitted) |->
                  [category |-> out.emitted[i].category,
                   rule |-> name,
                   loc |-> loc,
                   old |-> out.emitted[i].patch.old,
                   fixed |-> out.emitted[i].patch.fixed,
                   hasFix |-> TRUE,
                   status |-> "pending"]]
        /\ calls' = Append(calls,
              [rule |-> name, loc |-> loc, seen |-> node,
               returned |-> out.result, emitted |-> Len(out.emitted)])
        /\ ruleIdx' = ruleIdx + 1
        /\ UNCHANGED <<tree, registry, applyFixes, phase, pending, fixIdx,
                       replacements, passNo, report, warnings, runNo,
                       inputTree, history, releaseVars, printerVars>>

EnterPreferSelfClosing ==
    /\ phase = "enter"
    /\ pending # <<>>
    /\ ruleIdx <= Len(registry)
    /\ registry[ruleIdx] = PreferSelfClosingName
    /\ RunRule(PreferSelfClosingName,
               PreferSelfClosingEnter(NodeAt(view, Head(pending)), applyFixes))

EnterAstAddSelfClosing ==
    /\ phase = "enter"
    /\ pending # <<>>
    /\ ruleIdx <= Len(registry)
    /\ registry[ruleIdx] = AstAddSelfClosingName
    /\ RunRule(AstAddSelfClosingName,
               AstAddSelfClosingEnter(NodeAt(view, Head(pending)), applyFixes))

Descend ==
    /\ phase = "enter"
    /\ pending # <<>>
    /\ ruleIdx > Len(registry)
    /\ pending' = ChildLocs(Head(pending), NodeAt(view, Head(pending))) \o Tail(pending)
    /\ ruleIdx' = 1
    /\ UNCHANGED <<tree, view, registry, applyFixes, phase, diagnostics, fixIdx,
                   replacements, passNo, report, warnings, calls, runNo,
                   inputTree, history, releaseVars, printerVars>>

EndTraversal ==
    /\ phase = "enter"
    /\ pending = <<>>
    /\ IF applyFixes
       THEN /\ phase' = "fix"
            /\ fixIdx' = 1
            /\ report' = report
       ELSE /\ phase' = "done"
            /\ fixIdx' = fixIdx
            /\ report' = report \o diagnostics
    /\ UNCHANGED <<tree, view, registry, applyFixes, pending, ruleIdx, diagnostics,
                   replacements, passNo, warnings, calls, runNo,
                   inputTree, history, releaseVars, printerVars>>

(***************************************************************************)
(* FixApplier: after the pass, the queued suggestions are substituted at   *)
(* their locations.  A suggestion under another queued suggestion's        *)
(* location is discarded with a warning (ancestor wins); a suggestion      *)
(* whose `old` is not the live node is stale and is skipped.               *)
(***************************************************************************)
HasQueuedAncestor(k) ==
    \E j \in 1..Len(diagnostics) : StrictAncestor(diagnostics[j].loc, diagnostics[k].loc)

\* mutant: no suggestion is ever taken to be stale
IsStale_Never(d, t) == FALSE

IsStale(d, t) == d.old # NodeAt(t, d.loc)

ApplyFix ==
    /\ phase = "fix"
    /\ fixIdx <= Len(diagnostics)
    /\ LET d == diagnostics[fixIdx]
       IN  IF HasQueuedAncestor(fixIdx)
           THEN /\ diagnostics' = [diagnostics EXCEPT ![fixIdx].status = "discarded"]
                /\ warnings' = Append(warnings, "conflict")
                /\ UNCHANGED <<tree, replacements>>
           ELSE IF IsStale(d, tree)
           THEN /\ diagnostics' = [diagnostics EXCEPT ![fixIdx].status = "skipped"]
                /\ UNCHANGED <<tree, replacements, warnings>>
           ELSE /\ diagnostics' = [diagnostics EXCEPT ![fixIdx].status = "applied"]
                /\ tree' = ReplaceAt(tree, d.loc, d.fixed)
                /\ replacements' = replacements + 1
                /\ UNCHANGED warnings
    /\ fixIdx' = fixIdx + 1
    /\ UNCHANGED <<view, registry, applyFixes, phase, pending, ruleIdx, passNo,
                   report, calls, runNo, inputTree, history, releaseVars, printerVars>>

FinishPass ==
    /\ phase = "fix"
    /\ fixIdx > Len(diagnostics)
    /\ report' = report \o diagnostics
    /\ IF replacements = 0
       THEN /\ phase' = "done"
            /\ UNCHANGED <<view, pending, ruleIdx, diagnostics, fixIdx, replacements,
                           passNo, warnings, calls>>
       ELSE IF passNo >= FixIterationCap
       THEN /\ phase' = "done"
            /\ warnings' = Append(warnings, "fix limit reached")
            /\ UNCHANGED <<view, pending, ruleIdx, diagnostics, fixIdx, replacements,
                           passNo, calls>>
       ELSE /\ phase' = "enter"
            /\ view' = tree
            /\ pending' = << <<>> >>
            /\ ruleIdx' = 1
            /\ diagnostics' = <<>>
            /\ fixIdx' = 1
            /\ replacements' = 0
            /\ passNo' = passNo + 1
            /\ calls' = <<>>
            /\ UNCHANGED warnings
    /\ UNCHANGED <<tree, registry, applyFixes, runNo, inputTree, history, releaseVars, printerVars>>

\* The pipeline is run again on its own output.
Rerun ==
    /\ phase = "done"
    /\ applyFixes
    /\ runNo < MaxRuns
    /\ runNo' = runNo + 1
    /\ history' = Append(history, [input |-> inputTree, output |-> tree])
    /\ StartRun(tree)
    /\ UNCHANGED <<registry, applyFixes, releaseVars, printerVars>>

Next ==
    \/ EnterPreferSelfClosing
    \/ EnterAstAddSelfClosing
    \/ Descend
    \/ EndTraversal
    \/ ApplyFix
    \/ FinishPass
    \/ Rerun

Spec == Init /\ [][Next]_vars

(***************************************************************************)
(* The release workflow (changelog.ts).                                    *)
(*                                                                         *)
(* A version string is [vs, ver]: vs leading "v" characters before the     *)
(* dotted triple ver; the empty string is EmptyOut.  npm prints the new    *)
(* version as "v1.2.3".                                                    *)
(***************************************************************************)
VersionStr(vs, ver) == [vs |-> vs, ver |-> ver]
EmptyOut == VersionStr(0, <<>>)

Versions == {<<a, b, c>> : a \in 0..MaxVer, b \in 0..MaxVer, c \in 0..MaxVer}

CommitKinds ==
    {[hasMeta |-> FALSE, breaking |-> FALSE, commitType |-> ""]}
    \cup {[hasMeta |-> TRUE, breaking |-> b, commitType |-> t] :
             b \in BOOLEAN, t \in {"feat", "fix"}}

BranchOutputs == {"main\n", "dev\n"}
DiffStatuses == {0, 1, 128}
RegistryStatuses == {200, 404}

\* String.prototype.trim on the outputs the model draws
Trim(s) ==
    CASE s = "main\n" -> "main"
      [] s = "dev\n" -> "dev"
      [] OTHER -> s

major == "major"
minor == "minor"
patch == "patch"

Msg(text, args) == [text |-> text, args |-> args]
MainBranchMessage == Msg("Change logs must be generated on the main branch.", <<>>)
DirtyMessage == Msg("Uncommitted changes exist on the main branch.", <<>>)
VersionExistsMessage(new, cur) ==
    Msg("Version ${newVersion} already exists, reverting to ${currentVersion}.", <<new, cur>>)

\* `v${version}`
WithV(version) == [version EXCEPT !.vs = @ + 1]

\* mutant: "feat" is looked for before breaking
getReleaseType_FeatFirst(newCommits) ==
    IF \E i \in 1..Len(newCommits) :
           newCommits[i].hasMeta /\ newCommits[i].commitType = "feat"
    THEN minor
    ELSE IF \E i \in 1..Len(newCommits) : newCommits[i].hasMeta /\ newCommits[i].breaking
    THEN major
    ELSE patch

getReleaseType(newCommits) ==
    IF \E i \in 1..Len(newCommits) : newCommits[i].hasMeta /\ newCommits[i].breaking
    THEN major
    ELSE IF \E i \in 1..Len(newCommits) :
                newCommits[i].hasMeta /\ newCommits[i].commitType = "feat"
    THEN minor
    ELSE patch

isDirty(status) == status = 1

isMainBranch(stdout) == Trim(stdout) = "main"

\* The promise isNewVersion returns; it resolves to value.
isNewVersion(statusCode) == [kind |-> "Promise", value |-> (statusCode = 404)]

\* JavaScript ToBoolean: every object, a promise included, is truthy.
ToBoolean(x) == IF x.kind = "Promise" THEN TRUE ELSE x.value

\* mutant: the process is never ended
raiseError_NeverExits(message, keepAlive) ==
    [error |-> Msg("Changelogs must be generated on the main branch.", <<>>),
     exit |-> FALSE]

\* REPORTER.error is given a fixed text, whatever `message` is.
raiseError(message, keepAlive) ==
    [error |-> Msg("Changelogs must be generated on the main branch.", <<>>),
     exit |-> ~keepAlive]

Bump(ver, releaseType) ==
    CASE releaseType = major -> <<ver[1] + 1, 0, 0>>
      [] releaseType = minor -> <<ver[1], ver[2] + 1, 0>>
      [] OTHER -> <<ver[1], ver[2], ver[3] + 1>>

\* npm --no-git-tag-version version <arg> in a package whose version is ver:
\* the version it leaves in package.json and what it prints.  arg is a release
\* type (kind "releaseType") or a version string (kind "version"); npm takes a version with at most one leading "v"
\* that differs from the package's, and otherwise fails and prints nothing.
updateVersion(arg, ver) ==
    IF arg.kind = "releaseType"
    THEN [version |-> Bump(ver, arg.value),
          stdout |-> VersionStr(1, Bump(ver, arg.value))]
    ELSE IF arg.value.vs <= 1 /\ Len(arg.value.ver) = 3 /\ arg.value.ver # ver
    THEN [version |-> arg.value.ver, stdout |-> VersionStr(1, arg.value.ver)]
    ELSE [version |-> ver, stdout |-> EmptyOut]

\* mutant: the tag is made before the release commit
createTag_TagBeforeCommit(version) ==
    << [cmd |-> "git tag", arg |-> WithV(version)],
       [cmd |-> "git commit", arg |-> WithV(version)],
       [cmd |-> "git push", arg |-> EmptyOut],
       [cmd |-> "git push origin", arg |-> WithV(version)] >>

createTag(version) ==
    << [cmd |-> "git commit", arg |-> WithV(version)],
       [cmd |-> "git tag", arg |-> WithV(version)],
       [cmd |-> "git push", arg |-> EmptyOut],
       [cmd |-> "git push origin", arg |-> WithV(version)] >>

LintIdle ==
    /\ tree = TextNode
    /\ view = TextNode
    /\ inputTree = TextNode
    /\ history = <<>>
    /\ registry = <<>>
    /\ applyFixes = FALSE
    /\ phase = "idle"
    /\ pending = <<>>
    /\ ruleIdx = 1
    /\ diagnostics = <<>>
    /\ fixIdx = 1
    /\ replacements = 0
    /\ passNo = 1
    /\ report = <<>>
    /\ warnings = <<>>
    /\ calls = <<>>
    /\ runNo = 1

ReleaseInit ==
    /\ pc = "cache_version"
    /\ branchName \in BranchOutputs
    /\ diffStatus \in DiffStatuses
    /\ registryStatus \in RegistryStatuses
    /\ commits \in SeqsUpTo(CommitKinds, MaxCommits)
    /\ rootVersion \in Versions
    /\ romeVersion \in {rootVersion} \cup {Bump(rootVersion, t) : t \in {major, minor, patch}}
    /\ currentVersion = EmptyOut
    /\ newVersion = EmptyOut
    /\ reported = <<>>
    /\ exitCode = -1
    /\ effects = <<>>
    /\ targetReleaseType = ""
    /\ LintIdle
    /\ PrinterIdle

\* 0. Cache the current version for reverting
CacheVersion ==
    /\ pc = "cache_version"
    /\ currentVersion' = VersionStr(0, rootVersion)
    /\ pc' = "ensure_main"
    /\ UNCHANGED <<branchName, diffStatus, registryStatus, commits, rootVersion,
                   romeVersion, newVersion, reported, exitCode, effects, targetReleaseType,
                   lintVars, printerVars>>

\* 1. Ensure the branch is main
EnsureMain ==
    /\ pc = "ensure_main"
    /\ IF ~isMainBranch(branchName)
       THEN LET r == raiseError(MainBranchMessage, FALSE)
            IN  /\ reported' = Append(reported, r.error)
                /\ pc' = IF r.exit THEN "exited" ELSE "ensure_clean"
                /\ exitCode' = IF r.exit THEN 1 ELSE exitCode
       ELSE /\ pc' = "ensure_clean"
            /\ UNCHANGED <<reported, exitCode>>
    /\ UNCHANGED <<branchName, diffStatus, registryStatus, commits, rootVersion,
                   romeVersion, currentVersion, newVersion, effects, targetReleaseType,
                   lintVars, printerVars>>

\* 2. Ensure the branch is clean
EnsureClean ==
    /\ pc = "ensure_clean"
    /\ IF isDirty(diffStatus)
       THEN LET r == raiseError(DirtyMessage, FALSE)
            IN  /\ reported' = Append(reported, r.error)
                /\ pc' = IF r.exit THEN "exited" ELSE "update_root"
                /\ exitCode' = IF r.exit THEN 1 ELSE exitCode
       ELSE /\ pc' = "update_root"
            /\ UNCHANGED <<reported, exitCode>>
    /\ UNCHANGED <<branchName, diffStatus, registryStatus, commits, rootVersion,
                   romeVersion, currentVersion, newVersion, effects, targetReleaseType,
                   lintVars, printerVars>>

\* 3. Update the root package version
UpdateRoot ==
    /\ pc = "update_root"
    /\ LET releaseType == getReleaseType(commits)
           r == updateVersion([kind |-> "releaseType", value |-> releaseType], rootVersion)
       IN  /\ targetReleaseType' = releaseType
           /\ rootVersion' = r.version
           /\ newVersion' = r.stdout
           /\ effects' = Append(effects, [cmd |-> "npm version (root)", arg |-> r.stdout])
    /\ pc' = "ensure_new"
    /\ UNCHANGED <<branchName, diffStatus, registryStatus, commits, romeVersion,
                   currentVersion, reported, exitCode, lintVars, printerVars>>

\* 4. Ensure the version is not yet taken: the condition negates the promise
\* itself, not the value it resolves to.
EnsureNew ==
    /\ pc = "ensure_new"
    /\ IF ~ToBoolean(isNewVersion(registryStatus))
       THEN LET r == raiseError(VersionExistsMessage(newVersion, currentVersion), TRUE)
            IN  /\ reported' = Append(reported, r.error)
                /\ pc' = IF r.exit THEN "exited" ELSE "update_rome"
                /\ exitCode' = IF r.exit THEN 1 ELSE exitCode
       ELSE /\ pc' = "update_rome"
            /\ UNCHANGED <<reported, exitCode>>
    /\ UNCHANGED <<branchName, diffStatus, registryStatus, commits, rootVersion,
                   romeVersion, currentVersion, newVersion, effects, targetReleaseType,
                   lintVars, printerVars>>

\* 5. Update the rome package version
UpdateRome ==
    /\ pc = "update_rome"
    /\ LET r == updateVersion([kind |-> "version", value |-> newVersion], romeVersion)
       IN  /\ romeVersion' = r.version
           /\ effects' = Append(effects, [cmd |-> "npm version (rome)", arg |-> newVersion])
    /\ pc' = "create_tag"
    /\ UNCHANGED <<branchName, diffStatus, registryStatus, commits, rootVersion,
                   currentVersion, newVersion, reported, exitCode, targetReleaseType,
                   lintVars, printerVars>>

\* 6. Create a resulting tag
CreateTag ==
    /\ pc = "create_tag"
    /\ effects' = effects \o createTag(newVersion)
    /\ pc' = "done"
    /\ exitCode' = 0
    /\ UNCHANGED <<branchName, diffStatus, registryStatus, commits, rootVersion,
                   romeVersion, currentVersion, newVersion, reported, targetReleaseType,
                   lintVars, printerVars>>

ReleaseNext ==
    \/ CacheVersion
    \/ EnsureMain
    \/ EnsureClean
    \/ UpdateRoot
    \/ EnsureNew
    \/ UpdateRome
    \/ CreateTag

ReleaseSpec == ReleaseInit /\ [][ReleaseNext]_vars

(***************************************************************************)
(* The printer of TSTypeParameter (specification PrinterSpec).             *)
(***************************************************************************)
Undefined == [type |-> "undefined"]

\* JavaScript truthiness of an optional node: a node is truthy, undefined is not
Truthy(x) == x.type # "undefined"

TypeNodes == {[type |-> "TSTypeReference", id |-> i] : i \in 1..MaxTypes}
ParamNames == {"T", "K", "V"}

TypeParameters ==
    [name : ParamNames,
     constraint : TypeNodes \cup {Undefined},
     default : TypeNodes \cup {Undefined}]

space == [kind |-> "Space"]
Literal(text) == [kind |-> "Literal", text |-> text]
concat(tokens) == [kind |-> "Concat", children |-> tokens]

\* builder.tokenize(node, parent): the document of a child, printed with its parent
BuilderTokenize(node, parent) == [kind |-> "Tokenized", node |-> node, parent |-> parent]

\* mutant: the default is printed before the constraint
TSTypeParameter_DefaultFirst(node) ==
    concat(<<Literal(node.name)>>
           \o (IF Truthy(node.default)
               THEN <<space, Literal("="), space, BuilderTokenize(node.default, node)>>
               ELSE <<>>)
           \o (IF Truthy(node.constraint)
               THEN <<space, Literal("extends"), space,
                      BuilderTokenize(node.constraint, node)>>
               ELSE <<>>))

TSTypeParameter(node) ==
    concat(<<Literal(node.name)>>
           \o (IF Truthy(node.constraint)
               THEN <<space, Literal("extends"), space,
                      BuilderTokenize(node.constraint, node)>>
               ELSE <<>>)
           \o (IF Truthy(node.default)
               THEN <<space, Literal("="), space, BuilderTokenize(node.default, node)>>
               ELSE <<>>))

\* The layout engine on a flat document: Concat renders its children in order.
RenderToken(tok) ==
    CASE tok.kind = "Space" -> " "
      [] tok.kind = "Literal" -> tok.text
      [] OTHER -> "<type>"

Render(doc) == [i \in 1..Len(doc.children) |-> RenderToken(doc.children[i])]

PrinterInit ==
    /\ tpPc = "start"
    /\ tpNode \in TypeParameters
    /\ tpDoc = <<>>
    /\ tpText = <<>>
    /\ LintIdle
    /\ ReleaseIdle

Tokenize ==
    /\ tpPc = "start"
    /\ tpDoc' = TSTypeParameter(tpNode)
    /\ tpPc' = "tokenized"
    /\ UNCHANGED <<tpNode, tpText, lintVars, releaseVars>>

RenderDoc ==
    /\ tpPc = "tokenized"
    /\ tpText' = Render(tpDoc)
    /\ tpPc' = "rendered"
    /\ UNCHANGED <<tpNode, tpDoc, lintVars, releaseVars>>

PrinterNext ==
    \/ Tokenize
    \/ RenderDoc

PrinterSpec == PrinterInit /\ [][PrinterNext]_vars

(***************************************************************************)
(* Properties of the lint pipeline (checked under Spec).                   *)
(***************************************************************************)
RECURSIVE Locs(_)
Locs(t) ==
    {<<>>} \cup UNION {{<<i>> \o l : l \in Locs(t.children[i])} : i \in 1..Len(t.children)}

IsElement(n) == n.type \in {"JSXElement", "HTMLElement"}
ChildlessOpen(n) == ~n.selfClosing /\ Len(n.children) = 0
SelfClosed(n) == Elem(n.type, n.name, TRUE, n.children)

ReportAt(loc, category) ==
    {i \in 1..Len(report) : report[i].loc = loc /\ report[i].category = category}

DivOpen == Elem("HTMLElement", "div", FALSE, <<>>)
ImgOpen == Elem("HTMLElement", "img", FALSE, <<>>)

C2_PreferSelfClosingFixes ==
    (phase = "done" /\ applyFixes /\ registry[1] = PreferSelfClosingName) =>
        \A loc \in Locs(inputTree) :
            LET n == NodeAt(inputTree, loc)
            IN  (n.type = "HTMLElement" /\ n.name \in voidElements /\ ChildlessOpen(n)) =>
                    /\ NodeAt(tree, loc) = SelfClosed(n)
                    /\ Cardinality(ReportAt(loc, HTML_PREFER_SELF_CLOSING)) = 1
                    /\ \A i \in ReportAt(loc, HTML_PREFER_SELF_CLOSING) :
                           report[i].hasFix /\ report[i].status = "applied"
                    /\ Cardinality({i \in 1..Len(report) : report[i].loc = loc}) = 1

C2_Witness ==
    /\ phase = "done" /\ applyFixes /\ registry = <<PreferSelfClosingName>>
    /\ inputTree = ImgOpen
    /\ tree = Elem("HTMLElement", "img", TRUE, <<>>)
    /\ Len(report) = 1
    /\ report[1].category = HTML_PREFER_SELF_CLOSING
    /\ report[1].hasFix
    /\ report[1].status = "applied"

AstCalls == {i \in 1..Len(calls) : calls[i].rule = AstAddSelfClosingName}

\* C3: astAddSelfClosing emits a diagnostic exactly when the node it is given
\* is a JSXElement or HTMLElement that is not self-closing and has no
\* children; otherwise it emits nothing and returns the node unchanged.
C3_AstEmitsIffChildlessOpenElement ==
    \A i \in AstCalls :
        LET c == calls[i]
        IN  /\ (c.emitted > 0) <=> (IsElement(c.seen) /\ ChildlessOpen(c.seen))
            /\ c.emitted <= 1
            /\ ~(IsElement(c.seen) /\ ChildlessOpen(c.seen)) => c.returned = c.seen

C3_Witness ==
    /\ \E i \in AstCalls : calls[i].emitted = 1
    /\ \E i \in AstCalls :
           IsElement(calls[i].seen) /\ calls[i].seen.selfClosing /\ calls[i].emitted = 0
    /\ \E i \in AstCalls :
           IsElement(calls[i].seen) /\ Len(calls[i].seen.children) > 0
               /\ ~calls[i].seen.selfClosing /\ calls[i].emitted = 0

\* C4 (as claimed): a rule that calls addFixableDiagnostic hands back the
\* original node in describe-only mode and the fixed node in apply-fixes
\* mode, for both rules.
C4_HandsBackFixedWhenApplying ==
    \A i \in 1..Len(calls) :
        calls[i].emitted > 0 =>
            calls[i].returned =
                IF applyFixes THEN SelfClosed(calls[i].seen) ELSE calls[i].seen

SameNodePairs ==
    {i \in 1..(Len(calls) - 1) : calls[i].loc = calls[i + 1].loc}

\* C5: at one node the rules run in registration order and each sees the
\* node the previous one returned; with html/preferSelfClosing registered
\* before astAddSelfClosing in apply-fixes mode, astAddSelfClosing sees a
\* childless void HTMLElement already self-closing and emits nothing, so the
\* pass records exactly one diagnostic for that node.
C5_LaterRuleSeesEarlierOutput ==
    /\ \A i \in SameNodePairs :
           /\ calls[i + 1].seen = calls[i].returned
           /\ calls[i].rule = registry[1]
           /\ calls[i + 1].rule = registry[2]
    /\ (applyFixes /\ registry = <<PreferSelfClosingName, AstAddSelfClosingName>>) =>
           \A i \in SameNodePairs :
               (calls[i].seen.type = "HTMLElement" /\ calls[i].seen.name \in voidElements
                   /\ ChildlessOpen(calls[i].seen)) =>
                       /\ calls[i + 1].seen.selfClosing
                       /\ calls[i + 1].emitted = 0
                       /\ Cardinality({k \in 1..Len(diagnostics) :
                                          diagnostics[k].loc = calls[i].loc}) = 1

C5_Witness ==
    /\ applyFixes /\ registry = <<PreferSelfClosingName, AstAddSelfClosingName>>
    /\ \E i \in SameNodePairs :
           /\ calls[i].seen = ImgOpen
           /\ calls[i + 1].seen = Elem("HTMLElement", "img", TRUE, <<>>)
           /\ calls[i + 1].emitted = 0

\* a comes strictly before b in the depth-first, pre-order walk
LocBefore(a, b) ==
    \/ StrictAncestor(a, b)
    \/ \E k \in 1..Len(a) :
           /\ k <= Len(b)
           /\ SubSeq(a, 1, k - 1) = SubSeq(b, 1, k - 1)
           /\ a[k] < b[k]

RegIndex(name) == CHOOSE k \in 1..Len(registry) : registry[k] = name

Disjoint(a, b) == ~IsPrefix(a, b) /\ ~IsPrefix(b, a)

\* the pairs (i, j): html/preferSelfClosing fired at one location and
\* astAddSelfClosing at another, neither location inside the other
IndependentPairs ==
    {p \in (1..Len(report)) \X (1..Len(report)) :
        /\ report[p[1]].category = HTML_PREFER_SELF_CLOSING
        /\ report[p[2]].category = AST_ADD_SELF_CLOSING
        /\ Disjoint(report[p[1]].loc, report[p[2]].loc)}

BothFixesPresent ==
    \A p \in IndependentPairs :
        /\ NodeAt(tree, report[p[1]].loc) = SelfClosed(report[p[1]].old)
        /\ NodeAt(tree, report[p[2]].loc) = SelfClosed(report[p[2]].old)

C7_FixIsIdempotent ==
    (phase = "done" /\ runNo >= 2) =>
        /\ tree = history[runNo - 1].output
        /\ replacements = 0
        /\ passNo = 1
        /\ \A i \in 1..Len(report) : report[i].status # "applied"

C7_Witness ==
    /\ phase = "done" /\ runNo = 2
    /\ Len(registry) = 2
    /\ history[1].input # history[1].output
    /\ tree = history[1].output

Ran(cmd) == \E i \in 1..Len(effects) : effects[i].cmd = cmd

\* C9 (as claimed): when the registry already has the new version (its
\* status is not 404) the error is raised, and createTag runs only for a
\* version the registry does not have.
C9_TagOnlyForAbsentVersion ==
    /\ (pc \in {"update_rome", "create_tag", "done"} /\ registryStatus # 404) =>
           Len(reported) > 0
    /\ Ran("git tag") => registryStatus = 404

\* C10: updateVersion and createTag run only on the main branch with a clean
\* working tree; when either check fails the process has exited with code 1
\* before any of them.
C10_NoEffectUnlessMainAndClean ==
    /\ effects # <<>> => (branchName = "main\n" /\ diffStatus # 1)
    /\ (branchName # "main\n" \/ diffStatus = 1) =>
           pc \in {"cache_version", "ensure_main", "ensure_clean", "exited"}
    /\ pc = "exited" => (exitCode = 1 /\ effects = <<>> /\ Len(reported) = 1)

C10_Witness ==
    /\ pc = "exited"
    /\ exitCode = 1
    /\ effects = <<>>
    /\ branchName = "main\n"
    /\ diffStatus = 1

\* C11 (as claimed): raiseError reports the message it is given, so a run
\* that ends at a failed check has reported that check's own message.
C11_ReportsGivenMessage ==
    /\ (pc = "exited" /\ branchName # "main\n") => reported = <<MainBranchMessage>>
    /\ (pc = "exited" /\ branchName = "main\n") => reported = <<DirtyMessage>>

HasBreaking == \E i \in 1..Len(commits) : commits[i].hasMeta /\ commits[i].breaking
HasFeat == \E i \in 1..Len(commits) : commits[i].hasMeta /\ commits[i].commitType = "feat"
AfterUpdateRoot == pc \in {"ensure_new", "update_rome", "create_tag", "done"}

\* C12: the release type is major when a commit since the last tag is
\* breaking, otherwise minor when one has commitType "feat", otherwise patch;
\* a commit without meta counts as neither.
C12_ReleaseTypeByPrecedence ==
    AfterUpdateRoot =>
        /\ HasBreaking => targetReleaseType = "major"
        /\ (~HasBreaking /\ HasFeat) => targetReleaseType = "minor"
        /\ (~HasBreaking /\ ~HasFeat) => targetReleaseType = "patch"
        /\ rootVersion = CASE targetReleaseType = "major" ->
                                  <<currentVersion.ver[1] + 1, 0, 0>>
                           [] targetReleaseType = "minor" ->
                                  <<currentVersion.ver[1], currentVersion.ver[2] + 1, 0>>
                           [] OTHER ->
                                  <<currentVersion.ver[1], currentVersion.ver[2],
                                    currentVersion.ver[3] + 1>>

C12_Witness ==
    /\ pc = "done"
    /\ Len(commits) = 2
    /\ commits[1].hasMeta /\ commits[1].commitType = "feat" /\ ~commits[1].breaking
    /\ commits[2].hasMeta /\ commits[2].breaking
    /\ targetReleaseType = "major"

\* C13 (as claimed): when the registry already has the new version the
\* workflow reverts: the root package is back at the cached currentVersion,
\* the rome package is not updated and no tag is created.
C13_RevertsWhenVersionExists ==
    (pc = "done" /\ registryStatus # 404) =>
        /\ rootVersion = currentVersion.ver
        /\ ~Ran("npm version (rome)")
        /\ ~Ran("git tag")

(***************************************************************************)
(* More properties of the lint pipeline.                                   *)
(***************************************************************************)
SameNodeSuggestions ==
    {p \in (1..Len(diagnostics)) \X (1..Len(diagnostics)) :
        p[1] # p[2] /\ diagnostics[p[1]].loc = diagnostics[p[2]].loc}

\* C14 (as claimed): no node gets more than one fix suggestion in a pass,
\* whatever the registration order and the mode.
C14_AtMostOneSuggestionPerNode ==
    SameNodeSuggestions = {}

\* C14 (amended): a rule proposes at most one fix per node per pass; a node
\* gets a suggestion from each of the two rules only when it is a childless
\* void HTMLElement that is not self-closing and the pass is describe-only
\* or runs astAddSelfClosing first, and otherwise at most one in all.
C14_AtMostOneSuggestionPerRulePerNode ==
    \A p \in SameNodeSuggestions :
        LET a == diagnostics[p[1]]
            b == diagnostics[p[2]]
        IN  /\ a.rule # b.rule
            /\ a.old = b.old
            /\ a.old.type = "HTMLElement" /\ a.old.name \in voidElements
            /\ ChildlessOpen(a.old)
            /\ Len(registry) = 2
            /\ (~applyFixes \/ registry[1] = AstAddSelfClosingName)

C14_Witness ==
    /\ ~applyFixes
    /\ phase = "done"
    /\ registry = <<PreferSelfClosingName, AstAddSelfClosingName>>
    /\ inputTree = ImgOpen
    /\ Len(diagnostics) = 2
    /\ diagnostics[1].loc = diagnostics[2].loc
    /\ diagnostics[1].category = HTML_PREFER_SELF_CLOSING
    /\ diagnostics[2].category = AST_ADD_SELF_CLOSING

\* The walk and the fix applier are synchronous: a step that can be taken is taken.
LiveSpec == Init /\ [][Next]_vars /\ WF_vars(Next)

NoFixLimit ==
    /\ passNo < FixIterationCap
    /\ \A i \in 1..Len(warnings) : warnings[i] # "fix limit reached"

\* C15: every run of the fix loop comes to a pass without replacements and
\* stops there, before the iteration cap, so that "fix limit reached" is
\* never reported.
C15_FixLoopTerminates ==
    /\ []NoFixLimit
    /\ [](applyFixes => <>(phase = "done" /\ replacements = 0))

C15_Witness ==
    /\ phase = "done"
    /\ applyFixes
    /\ passNo = 2
    /\ replacements = 0
    /\ history = <<>>
    /\ \E i \in 1..Len(report) : report[i].status = "applied"
    /\ warnings = <<>>

\* C16: the rules propose replacements only for nodes without children, so
\* no queued replacement lies under another one, the ancestor-wins policy
\* discards nothing and no conflict warning is recorded.
C16_NoNestedReplacements ==
    /\ \A i \in 1..Len(diagnostics) :
           /\ Len(diagnostics[i].old.children) = 0
           /\ Len(NodeAt(inputTree, diagnostics[i].loc).children) = 0
           /\ diagnostics[i].status # "discarded"
    /\ \A i, j \in 1..Len(diagnostics) :
           ~StrictAncestor(diagnostics[i].loc, diagnostics[j].loc)
    /\ \A i \in 1..Len(warnings) : warnings[i] # "conflict"

C16_Witness ==
    /\ phase = "done"
    /\ applyFixes
    /\ Len(inputTree.children) = 2
    /\ IsElement(inputTree) /\ ~inputTree.selfClosing
    /\ \E i, j \in 1..Len(report) :
           /\ report[i].loc = <<1>> /\ report[i].status = "applied"
           /\ report[j].loc = <<2>> /\ report[j].status = "applied"
    /\ warnings = <<>>

CallOf(d) ==
    {i \in 1..Len(calls) : calls[i].rule = d.rule /\ calls[i].loc = d.loc}

\* C18: a rule does not change the node it visits: the tree is as it was
\* while the rules run, a suggestion's `old` is the node the rule was given,
\* its `fixed` is that node with selfClosing true and the same type, name
\* and children, and a rule whose condition does not hold returns the node
\* it was given and records nothing.
C18_RulesLeaveNodeAlone ==
    /\ (phase = "enter" /\ passNo = 1) => tree = inputTree
    /\ \A k \in 1..Len(diagnostics) :
           LET d == diagnostics[k]
           IN  /\ \E i \in CallOf(d) : calls[i].seen = d.old /\ calls[i].emitted = 1
               /\ ~d.old.selfClosing
               /\ d.fixed = Elem(d.old.type, d.old.name, TRUE, d.old.children)
    /\ \A i \in 1..Len(calls) :
           /\ calls[i].emitted = 0 => calls[i].returned = calls[i].seen
           /\ calls[i].returned \in {calls[i].seen, SelfClosed(calls[i].seen)}
           /\ calls[i].emitted =
                  Cardinality({k \in 1..Len(diagnostics) :
                                  diagnostics[k].rule = calls[i].rule
                                      /\ diagnostics[k].loc = calls[i].loc})

C18_Witness ==
    /\ phase = "enter"
    /\ passNo = 1
    /\ Len(registry) = 2
    /\ tree = inputTree
    /\ \E i, j \in 1..Len(calls) :
           /\ calls[i].emitted = 1
           /\ calls[j].emitted = 0 /\ IsElement(calls[j].seen)
    /\ \E k \in 1..Len(diagnostics) :
           diagnostics[k].fixed # diagnostics[k].old

(***************************************************************************)
(* More properties of the release workflow.                                *)
(***************************************************************************)
StepOrder ==
    <<"npm version (root)", "npm version (rome)", "git commit", "git tag",
      "git push", "git push origin">>

\* C17: the steps of main() happen in the order root version bump, rome
\* version set, release commit, tag, push, push of the tag; when main() has
\* run to its end the root package, the rome package and the tag all carry
\* the version of newVersion.
C17_StepsInOrderSameVersion ==
    /\ Len(effects) <= Len(StepOrder)
    /\ \A i \in 1..Len(effects) : effects[i].cmd = StepOrder[i]
    /\ pc = "done" =>
           /\ Len(effects) = Len(StepOrder)
           /\ Len(newVersion.ver) = 3
           /\ rootVersion = newVersion.ver
           /\ romeVersion = newVersion.ver
           /\ effects[2].arg = newVersion
           /\ \A i \in {3, 4, 6} : effects[i].arg = WithV(newVersion)

C17_Witness ==
    /\ pc = "done"
    /\ Len(effects) = 6
    /\ effects[4].cmd = "git tag"
    /\ effects[4].arg.ver = rootVersion
    /\ rootVersion = romeVersion
    /\ rootVersion # currentVersion.ver

(***************************************************************************)
(* Properties of the printer (checked under PrinterSpec).                  *)
(***************************************************************************)
ConstraintPart ==
    <<space, Literal("extends"), space,
      [kind |-> "Tokenized", node |-> tpNode.constraint, parent |-> tpNode]>>
DefaultPart ==
    <<space, Literal("="), space,
      [kind |-> "Tokenized", node |-> tpNode.default, parent |-> tpNode]>>

\* C19: the printer of TSTypeParameter returns a Concat of, in this order:
\* the name; then space, "extends", space and the tokenized constraint
\* exactly when there is a constraint; then space, "=", space and the
\* tokenized default exactly when there is a default; the children are
\* tokenized with the type parameter as parent, and the rendered pieces come
\* in the same order.
C19_TypeParameterTokens ==
    tpPc \in {"tokenized", "rendered"} =>
        /\ tpDoc.kind = "Concat"
        /\ tpDoc.children =
               <<Literal(tpNode.name)>>
               \o (IF tpNode.constraint # Undefined THEN ConstraintPart ELSE <<>>)
               \o (IF tpNode.default # Undefined THEN DefaultPart ELSE <<>>)
        /\ tpPc = "rendered" =>
               /\ Len(tpText) = Len(tpDoc.children)
               /\ tpText[1] = tpNode.name
               /\ (tpNode.constraint # Undefined /\ tpNode.default # Undefined) =>
                      (tpText[3] = "extends" /\ tpText[7] = "=")

C19_Witness ==
    /\ tpPc = "rendered"
    /\ tpNode.constraint # Undefined
    /\ tpNode.default # Undefined
    /\ tpNode.constraint # tpNode.default
    /\ Len(tpDoc.children) = 9
    /\ tpText = <<tpNode.name, " ", "extends", " ", "<type>", " ", "=", " ", "<type>">>

====
